---------------------------- MODULE Spec2Model ----------------------------
(***************************************************************************)
(* s3etag: chunked MD5 digest (multipart-upload ETag).                     *)
(*                                                                         *)
(* The model follows src/src/lib.rs (Digest, Context, compute,             *)
(* compute_with_chunk_size) and src/src/bin/s3etag.rs (main).              *)
(* One Context is driven by one of three callers: a library client that    *)
(* calls the constructors, consume and finalize itself ("lib"), the        *)
(* one-shot functions ("compute"), or the command line program ("main").   *)
(* The consume loop is stepped one iteration at a time.                    *)
(***************************************************************************)
EXTENDS Integers, Sequences, FiniteSets, TLC

VARIABLES
    pc,           \* position of the caller: start, idle, cloned, consume, taken, finalized, exited, panic
    caller,       \* who drives the Context: none, lib, compute, main
    ctx,          \* the Context struct (lib.rs:77-83)
    reserved,     \* capacity requested for combined_hashes at construction
    remaining,    \* the `remaining` slice of the running consume call
    fed,          \* every byte handed to consume so far, in order
    calls,        \* data.len() of every consume call so far, in order
    digest,       \* the Digest returned by finalize
    cli,          \* the parsed command line and the state of the file
    stdout,       \* lines printed with println!
    stderr,       \* lines printed on standard error
    exit_status,  \* process exit status of main, NoStatus while running
    io,           \* the last call through std::io::Write and what it returned
    cloned        \* a second Context made by Context::clone, and what was done with it

vars == <<pc, caller, ctx, reserved, remaining, fed, calls, digest, cli, stdout, stderr, exit_status, io, cloned>>

ctxvars == <<ctx, reserved, remaining, fed, calls, digest>>
clivars == <<cli, stdout, stderr, exit_status>>

----------------------------------------------------------------------------
(* Bounds of the model *)

MaxTotal == 3        \* most bytes a library client or one-shot call feeds
MaxCalls == 3        \* most consume calls a library client makes
MaxChunkSize == 3    \* largest small chunk size tried (0 is tried as well)
MaxHint == 2         \* largest total_size hint given to with_capacity
MaxSpin == 3         \* iterations followed of a consume loop that takes no byte
MaxFileLen == 2      \* longest file the command line program reads
MaxChunkMB == 1      \* largest --chunk-size (in MB) given on the command line
MaxCloneBytes == 1   \* most bytes fed to a clone after it was made

(* the byte values inputs are made of: 'a' and 'b' *)
InputBytes == {97, 98}

----------------------------------------------------------------------------
(* Program constants *)

HashLen == 16                          \* [u8; 16]
DefaultChunkSize == 8 * 1024 * 1024    \* Context::new
BytesPerMB == 1024 * 1024              \* main: cli.chunk_size * 1024 * 1024
ExitMissing == 2                       \* std::process::exit(2)
ExitMismatch == 1                      \* std::process::exit(1)
ExitSuccess == 0                       \* main returns Ok(())
ExitFailure == 1                       \* main returns Err: the runtime exits with 1
NoStatus == -1                         \* main has not exited

Min(a, b) == IF a <= b THEN a ELSE b

RECURSIVE SeqsUpTo(_)
(* all sequences of InputBytes of length at most n *)
SeqsUpTo(n) ==
    IF n = 0 THEN {<<>>}
    ELSE LET shorter == SeqsUpTo(n - 1)
         IN shorter \cup {Append(s, b) : s \in {t \in shorter : Len(t) = n - 1}, b \in InputBytes}

----------------------------------------------------------------------------
(* md5::compute.  The md5 crate is not part of the repository; it is       *)
(* modelled as a deterministic function from byte sequences to 16 bytes,   *)
(* built from two position-weighted checksums so that distinct inputs of   *)
(* the model get distinct outputs.                                         *)

RECURSIVE Checksum(_, _, _, _, _)
(* sum over lo..hi of (s[i] + 1) * (a*i*i*i + 131*i + 3), modulo p; the    *)
(* range is halved at each step                                            *)
Checksum(s, lo, hi, a, p) ==
    IF lo > hi THEN 0
    ELSE IF lo = hi THEN ((s[lo] + 1) * ((a * lo * lo * lo + 131 * lo + 3) % p)) % p
    ELSE LET mid == (lo + hi) \div 2
         IN (Checksum(s, lo, mid, a, p) + Checksum(s, mid + 1, hi, a, p)) % p

md5(s) ==
    LET h1 == (Checksum(s, 1, Len(s), 7, 65521) + 40503 * Len(s) + 1) % 65521
        h2 == (Checksum(s, 1, Len(s), 11, 65519) + 1) % 65519
        word(k) == IF k = 0 THEN h1
                   ELSE IF k = 1 THEN h2
                   ELSE (h1 * (k + 2) + h2 * (k + 5) + Len(s)) % 65536
    IN [i \in 1..HashLen |->
            LET w == word((i - 1) \div 2)
            IN IF i % 2 = 1 THEN w % 256 ELSE (w \div 256) % 256]

----------------------------------------------------------------------------
(* Context *)

NoContext ==
    [combined_hashes |-> <<>>, current_chunk |-> <<>>,
     chunk_size |-> 0, chunk_count |-> 0, total_bytes |-> 0]

(* results of the std::io::Write methods (lib.rs:168-178) *)
Pending == <<"pending">>
Ok(n) == <<"Ok", n>>
OkUnit == <<"Ok">>
NoIo == [op |-> "none", buf |-> <<>>, ret |-> <<>>]

NoDigest == [hash |-> <<>>, parts |-> 0]

with_chunk_size(chunk_size) ==
    [combined_hashes |-> <<>>, current_chunk |-> <<>>,
     chunk_size |-> chunk_size, chunk_count |-> 0, total_bytes |-> 0]

new == with_chunk_size(DefaultChunkSize)

(* u64::div_ceil; the caller never passes b = 0 (division by zero panics) *)
div_ceil(a, b) == (a + b - 1) \div b

(* capacity with_capacity asks for: estimated_chunks * 16 *)
estimated_capacity(chunk_size, total_size) == div_ceil(total_size, chunk_size) * HashLen

(* with_capacity that fills the reserved space with zero bytes instead of  *)
(* leaving the hash list empty                                             *)
with_capacity_prefilled(chunk_size, total_size) ==
    [combined_hashes |-> [i \in 1..estimated_capacity(chunk_size, total_size) |-> 0],
     current_chunk |-> <<>>,
     chunk_size |-> chunk_size, chunk_count |-> 0, total_bytes |-> 0]

with_capacity(chunk_size, total_size) ==
    [combined_hashes |-> <<>>, current_chunk |-> <<>>,
     chunk_size |-> chunk_size, chunk_count |-> 0, total_bytes |-> 0]

(* take that adds nothing to a chunk that is already partly filled *)
take_only_into_empty(c, rem) ==
    LET to_take == IF c.current_chunk # <<>> THEN 0
                   ELSE Min(Len(rem), c.chunk_size - Len(c.current_chunk))
    IN [ctx |-> [c EXCEPT !.current_chunk = @ \o SubSeq(rem, 1, to_take)],
        remaining |-> SubSeq(rem, to_take + 1, Len(rem))]

(* take with space_left computed as chunk_size alone, the buffered bytes   *)
(* forgotten                                                               *)
take_ignoring_buffer(c, rem) ==
    LET to_take == Min(Len(rem), c.chunk_size)
    IN [ctx |-> [c EXCEPT !.current_chunk = @ \o SubSeq(rem, 1, to_take)],
        remaining |-> SubSeq(rem, to_take + 1, Len(rem))]

(* First half of an iteration of the while loop of consume                 *)
(* (lib.rs:120-124): space_left, to_take, extend_from_slice, advance.      *)
(* chunk_size - current_chunk.len() is a usize subtraction: were it to     *)
(* underflow, the wrapped value exceeds remaining.len(), so to_take is     *)
(* remaining.len().                                                        *)
take(c, rem) ==
    LET to_take == IF c.chunk_size >= Len(c.current_chunk)
                   THEN Min(Len(rem), c.chunk_size - Len(c.current_chunk))
                   ELSE Len(rem)
    IN [ctx |-> [c EXCEPT !.current_chunk = @ \o SubSeq(rem, 1, to_take)],
        remaining |-> SubSeq(rem, to_take + 1, Len(rem))]

(* flush that stores the new hash in place of the hash list *)
flush_overwriting(c) ==
    IF Len(c.current_chunk) = c.chunk_size
    THEN [c EXCEPT !.combined_hashes = md5(c.current_chunk),
                   !.current_chunk = <<>>,
                   !.chunk_count = @ + 1]
    ELSE c

(* flush that counts every full chunk twice *)
flush_counting_twice(c) ==
    IF Len(c.current_chunk) = c.chunk_size
    THEN [c EXCEPT !.combined_hashes = @ \o md5(c.current_chunk),
                   !.current_chunk = <<>>,
                   !.chunk_count = @ + 2]
    ELSE c

(* flush that tests current_chunk.len() > chunk_size *)
flush_when_over(c) ==
    IF Len(c.current_chunk) > c.chunk_size
    THEN [c EXCEPT !.combined_hashes = @ \o md5(c.current_chunk),
                   !.current_chunk = <<>>,
                   !.chunk_count = @ + 1]
    ELSE c

(* Second half of an iteration (lib.rs:126-131): a full chunk is hashed,   *)
(* its hash appended, the buffer cleared and the chunk counted.            *)
flush(c) ==
    IF Len(c.current_chunk) = c.chunk_size
    THEN [c EXCEPT !.combined_hashes = @ \o md5(c.current_chunk),
                   !.current_chunk = <<>>,
                   !.chunk_count = @ + 1]
    ELSE c

(* one whole iteration of the loop *)
consume_iter(c, rem) ==
    LET t == take(c, rem)
    IN [ctx |-> flush(t.ctx), remaining |-> t.remaining]

RECURSIVE consume_loop(_, _)
(* the while loop of consume run to its end *)
consume_loop(c, rem) ==
    IF rem = <<>> THEN c
    ELSE LET r == consume_iter(c, rem) IN consume_loop(r.ctx, r.remaining)

(* a whole consume call; used only with chunk_size >= 1 *)
consume(c, data) == consume_loop([c EXCEPT !.total_bytes = @ + Len(data)], data)

(* finalize that never hashes the buffered partial chunk *)
finalize_full_chunks_only(c) ==
    [ctx |-> c,
     digest |-> [hash |-> md5(c.combined_hashes), parts |-> c.chunk_count]]

(* finalize that hashes the buffer whether or not it is empty *)
finalize_always_appending(c) ==
    LET last == [c EXCEPT !.combined_hashes = @ \o md5(c.current_chunk),
                          !.chunk_count = @ + 1]
    IN [ctx |-> last,
        digest |-> [hash |-> md5(last.combined_hashes), parts |-> last.chunk_count]]

(* finalize: the Context as finalize leaves it, and the Digest it returns *)
(* clone that starts over with an empty accumulator of the same chunk size *)
clone_fresh(c) == with_chunk_size(c.chunk_size)

(* #[derive(Clone)]: every field is cloned, the two Vec<u8> by value *)
clone(c) == c

(* no clone has been made *)
NoClone == [state |-> "none", ctx |-> NoContext, fed |-> <<>>, base |-> 0, digest |-> NoDigest]

(* finalize that mixes the byte counter into the final hash *)
finalize_counting_bytes(c) ==
    LET last == IF c.current_chunk # <<>>
                THEN [c EXCEPT !.combined_hashes = @ \o md5(c.current_chunk),
                               !.chunk_count = @ + 1]
                ELSE c
    IN [ctx |-> last,
        digest |-> [hash |-> md5(last.combined_hashes \o <<last.total_bytes % 256>>),
                    parts |-> last.chunk_count]]

finalize(c) ==
    LET last == IF c.current_chunk # <<>>
                THEN [c EXCEPT !.combined_hashes = @ \o md5(c.current_chunk),
                               !.chunk_count = @ + 1]
                ELSE c
    IN [ctx |-> last,
        digest |-> [hash |-> md5(last.combined_hashes), parts |-> last.chunk_count]]

(* Context::total_bytes *)
total_bytes(c) == c.total_bytes

compute_with_chunk_size(data, chunk_size) ==
    finalize(consume(with_chunk_size(chunk_size), data)).digest

compute(data) == finalize(consume(new, data)).digest

----------------------------------------------------------------------------
(* Digest formatting (lib.rs:36-58) *)

HexLower == <<"0", "1", "2", "3", "4", "5", "6", "7", "8", "9", "a", "b", "c", "d", "e", "f">>
HexUpper == <<"0", "1", "2", "3", "4", "5", "6", "7", "8", "9", "A", "B", "C", "D", "E", "F">>
DecDigits == <<"0", "1", "2", "3", "4", "5", "6", "7", "8", "9">>

(* write!(formatter, "{:02x}", value) with the digits of the wanted case *)
fmt_byte(value, digits) == <<digits[(value \div 16) + 1], digits[(value % 16) + 1]>>

RECURSIVE fmt_decimal(_)
(* write!(formatter, "{}", n) for a usize *)
fmt_decimal(n) ==
    IF n < 10 THEN <<DecDigits[n + 1]>>
    ELSE Append(fmt_decimal(n \div 10), DecDigits[(n % 10) + 1])

RECURSIVE fmt_hash(_, _, _)
(* the for loop over &self.hash *)
fmt_hash(hash, i, digits) ==
    IF i > Len(hash) THEN <<>>
    ELSE fmt_byte(hash[i], digits) \o fmt_hash(hash, i + 1, digits)

LowerHex(d) == fmt_hash(d.hash, 1, HexLower) \o <<"-">> \o fmt_decimal(d.parts)
UpperHex(d) == fmt_hash(d.hash, 1, HexUpper) \o <<"-">> \o fmt_decimal(d.parts)
Display(d) == LowerHex(d)

----------------------------------------------------------------------------
(* Command line (bin/s3etag.rs) *)

Quote == "\""

RECURSIVE trim_start(_)
trim_start(t) == IF t # <<>> /\ Head(t) = Quote THEN trim_start(Tail(t)) ELSE t

RECURSIVE trim_end(_)
trim_end(t) ==
    IF t # <<>> /\ t[Len(t)] = Quote THEN trim_end(SubSeq(t, 1, Len(t) - 1)) ELSE t

(* trimming of the leading quotes only *)
trim_leading_only(t) == trim_start(t)

(* expected.trim_matches('"'): every leading and trailing quote is removed *)
trim_matches(t) == trim_end(trim_start(t))

NoEtag == <<"none">>       \* cli.etag is None

NoCli == [chunk_size |-> 0, exists |-> FALSE, opens |-> FALSE, file |-> <<>>, etag |-> NoEtag]

TextTrue == <<"T", "R", "U", "E">>
TextFalse == <<"F", "A", "L", "S", "E">>
TextNotFound == <<"file not found">>
TextError == <<"Error">>

(* the digest a correct reference ETag of the file spells out *)
FileDigest(file, chunk_size) ==
    IF chunk_size = 0 THEN finalize(with_chunk_size(0)).digest
    ELSE compute_with_chunk_size(file, chunk_size)

(* the --etag values tried for a file: the right text, bare, quoted and    *)
(* misquoted, and texts that differ from it in case, parts or length       *)
Etags(file, chunk_size) ==
    LET d == FileDigest(file, chunk_size)
        t == LowerHex(d)
    IN {NoEtag, t, <<Quote>> \o t \o <<Quote>>,
        <<Quote, Quote>> \o t \o <<Quote>>,
        <<Quote>> \o t,
        SubSeq(t, 1, 3) \o <<Quote>> \o SubSeq(t, 4, Len(t)),
        UpperHex(d),
        LowerHex([d EXCEPT !.parts = @ + 1]),
        t \o <<"0">>,
        SubSeq(t, 1, Len(t) - 1),
        <<Quote, Quote>>,
        <<>>}

----------------------------------------------------------------------------
Init ==
    /\ pc = "start"
    /\ caller = "none"
    /\ ctx = NoContext
    /\ reserved = 0
    /\ remaining = <<>>
    /\ fed = <<>>
    /\ calls = <<>>
    /\ digest = NoDigest
    /\ cli = NoCli
    /\ stdout = <<>>
    /\ stderr = <<>>
    /\ exit_status = NoStatus
    /\ io = NoIo
    /\ cloned = NoClone

ChunkSizes == (0..MaxChunkSize) \cup {DefaultChunkSize}

(* a library client calls Context::new *)
New ==
    /\ pc = "start"
    /\ pc' = "idle"
    /\ caller' = "lib"
    /\ ctx' = new
    /\ reserved' = 0
    /\ UNCHANGED <<cloned, io, remaining, fed, calls, digest, clivars>>

(* a library client calls Context::with_chunk_size *)
WithChunkSize(chunk_size) ==
    /\ pc = "start"
    /\ pc' = "idle"
    /\ caller' = "lib"
    /\ ctx' = with_chunk_size(chunk_size)
    /\ reserved' = 0
    /\ UNCHANGED <<cloned, io, remaining, fed, calls, digest, clivars>>

(* a library client calls Context::with_capacity; div_ceil panics on a zero chunk size *)
WithCapacity(chunk_size, total_size) ==
    /\ pc = "start"
    /\ caller' = "lib"
    /\ IF chunk_size = 0
       THEN /\ pc' = "panic"
            /\ UNCHANGED <<ctx, reserved>>
       ELSE /\ pc' = "idle"
            /\ ctx' = with_capacity(chunk_size, total_size)
            /\ reserved' = estimated_capacity(chunk_size, total_size)
    /\ UNCHANGED <<cloned, io, remaining, fed, calls, digest, clivars>>

(* entry of consume that starts every call with an empty chunk buffer *)
ConsumeCallResettingBuffer(data) ==
    /\ pc = "idle"
    /\ caller = "lib"
    /\ Len(fed) + Len(data) <= MaxTotal
    /\ Len(calls) < MaxCalls
    /\ pc' = "consume"
    /\ ctx' = [ctx EXCEPT !.total_bytes = @ + Len(data), !.current_chunk = <<>>]
    /\ remaining' = data
    /\ fed' = fed \o data
    /\ calls' = Append(calls, Len(data))
    /\ UNCHANGED <<cloned, io, caller, reserved, digest, clivars>>

(* entry of consume: total_bytes += data.len(); remaining = data *)
ConsumeCall(data) ==
    /\ pc = "idle"
    /\ caller = "lib"
    /\ Len(fed) + Len(data) <= MaxTotal
    /\ Len(calls) < MaxCalls
    /\ pc' = "consume"
    /\ ctx' = [ctx EXCEPT !.total_bytes = @ + Len(data)]
    /\ remaining' = data
    /\ fed' = fed \o data
    /\ calls' = Append(calls, Len(data))
    /\ UNCHANGED <<cloned, io, caller, reserved, digest, clivars>>

(* the loop condition holds; lib.rs:120-124 *)
ConsumeTake ==
    /\ pc = "consume"
    /\ remaining # <<>>
    /\ ctx.chunk_size = 0 => ctx.chunk_count < MaxSpin
    /\ pc' = "taken"
    /\ LET t == take(ctx, remaining)
       IN /\ ctx' = t.ctx
          /\ remaining' = t.remaining
    /\ UNCHANGED <<cloned, io, caller, reserved, fed, calls, digest, clivars>>

(* lib.rs:126-131, then back to the loop condition *)
ConsumeFlush ==
    /\ pc = "taken"
    /\ pc' = "consume"
    /\ ctx' = flush(ctx)
    /\ UNCHANGED <<cloned, io, caller, reserved, remaining, fed, calls, digest, clivars>>

(* the loop condition fails and consume returns; inside Write::write the   *)
(* next line is Ok(buf.len())                                              *)
ConsumeReturn ==
    /\ pc = "consume"
    /\ remaining = <<>>
    /\ pc' = "idle"
    /\ io' = IF io.ret = Pending THEN [io EXCEPT !.ret = Ok(Len(io.buf))] ELSE io
    /\ UNCHANGED <<cloned, caller, ctxvars, clivars>>

(* Write::write that hands consume the buffer without its last byte *)
WriteCallDroppingByte(buf) ==
    /\ pc = "idle"
    /\ caller = "lib"
    /\ Len(fed) + Len(buf) <= MaxTotal
    /\ Len(calls) < MaxCalls
    /\ pc' = "consume"
    /\ LET data == SubSeq(buf, 1, Len(buf) - 1)
       IN /\ ctx' = [ctx EXCEPT !.total_bytes = @ + Len(data)]
          /\ remaining' = data
    /\ fed' = fed \o buf
    /\ calls' = Append(calls, Len(buf))
    /\ io' = [op |-> "write", buf |-> buf, ret |-> Pending]
    /\ UNCHANGED <<cloned, caller, reserved, digest, clivars>>

(* a library client calls Write::write(buf): self.consume(buf) is entered  *)
WriteCall(buf) ==
    /\ pc = "idle"
    /\ caller = "lib"
    /\ Len(fed) + Len(buf) <= MaxTotal
    /\ Len(calls) < MaxCalls
    /\ pc' = "consume"
    /\ ctx' = [ctx EXCEPT !.total_bytes = @ + Len(buf)]
    /\ remaining' = buf
    /\ fed' = fed \o buf
    /\ calls' = Append(calls, Len(buf))
    /\ io' = [op |-> "write", buf |-> buf, ret |-> Pending]
    /\ UNCHANGED <<cloned, caller, reserved, digest, clivars>>

(* a library client calls Write::flush: Ok(()) *)
FlushCall ==
    /\ pc = "idle"
    /\ caller = "lib"
    /\ pc' = "idle"
    /\ io' = [op |-> "flush", buf |-> <<>>, ret |-> OkUnit]
    /\ UNCHANGED <<cloned, caller, ctxvars, clivars>>

(* finalize, called by a library client, at the end of a one-shot         *)
(* function, or by main once std::io::copy has reached the end of file    *)
Finalize ==
    /\ pc = "idle"
    /\ caller = "main" => fed = cli.file
    /\ pc' = "finalized"
    /\ LET f == finalize(ctx)
       IN /\ ctx' = f.ctx
          /\ digest' = f.digest
    /\ UNCHANGED <<cloned, io, caller, reserved, remaining, fed, calls, clivars>>

(* compute(data): Context::new, consume(data), finalize *)
Compute(data) ==
    /\ pc = "start"
    /\ pc' = "consume"
    /\ caller' = "compute"
    /\ ctx' = [new EXCEPT !.total_bytes = @ + Len(data)]
    /\ reserved' = 0
    /\ remaining' = data
    /\ fed' = data
    /\ calls' = <<Len(data)>>
    /\ UNCHANGED <<cloned, io, digest, clivars>>

(* compute_with_chunk_size(data, chunk_size) *)
ComputeWithChunkSize(data, chunk_size) ==
    /\ pc = "start"
    /\ pc' = "consume"
    /\ caller' = "compute"
    /\ ctx' = [with_chunk_size(chunk_size) EXCEPT !.total_bytes = @ + Len(data)]
    /\ reserved' = 0
    /\ remaining' = data
    /\ fed' = data
    /\ calls' = <<Len(data)>>
    /\ UNCHANGED <<cloned, io, digest, clivars>>

(* main: the file does not exist (s3etag.rs:26-29) *)
MainMissing(chunk_size, etag) ==
    /\ pc = "start"
    /\ pc' = "exited"
    /\ caller' = "main"
    /\ cli' = [chunk_size |-> chunk_size, exists |-> FALSE, opens |-> FALSE,
               file |-> <<>>, etag |-> etag]
    /\ stderr' = Append(stderr, TextNotFound)
    /\ exit_status' = ExitMissing
    /\ UNCHANGED <<cloned, io, ctxvars, stdout>>

(* main: the file exists but File::open fails; `?` returns the error *)
MainOpenFail(chunk_size, etag) ==
    /\ pc = "start"
    /\ pc' = "exited"
    /\ caller' = "main"
    /\ cli' = [chunk_size |-> chunk_size, exists |-> TRUE, opens |-> FALSE,
               file |-> <<>>, etag |-> etag]
    /\ stderr' = Append(stderr, TextError)
    /\ exit_status' = ExitFailure
    /\ UNCHANGED <<cloned, io, ctxvars, stdout>>

(* main: the file is open and the Context is built (s3etag.rs:31-34) *)
MainOpen(chunk_size, file, etag) ==
    /\ pc = "start"
    /\ pc' = "idle"
    /\ caller' = "main"
    /\ cli' = [chunk_size |-> chunk_size, exists |-> TRUE, opens |-> TRUE,
               file |-> file, etag |-> etag]
    /\ ctx' = with_chunk_size(chunk_size * BytesPerMB)
    /\ reserved' = 0
    /\ UNCHANGED <<cloned, io, remaining, fed, calls, digest, stdout, stderr, exit_status>>

(* std::io::copy reads the next n bytes of the file and hands them to      *)
(* Write::write, which calls consume                                       *)
CopyWrite(n) ==
    /\ pc = "idle"
    /\ caller = "main"
    /\ n \in 1..(Len(cli.file) - Len(fed))
    /\ LET buf == SubSeq(cli.file, Len(fed) + 1, Len(fed) + n)
       IN /\ ctx' = [ctx EXCEPT !.total_bytes = @ + Len(buf)]
          /\ remaining' = buf
          /\ fed' = fed \o buf
          /\ calls' = Append(calls, Len(buf))
          /\ io' = [op |-> "write", buf |-> buf, ret |-> Pending]
    /\ pc' = "consume"
    /\ UNCHANGED <<cloned, caller, reserved, digest, clivars>>

(* std::io::copy: a read fails; `?` returns the error *)
CopyReadFail ==
    /\ pc = "idle"
    /\ caller = "main"
    /\ pc' = "exited"
    /\ stderr' = Append(stderr, TextError)
    /\ exit_status' = ExitFailure
    /\ UNCHANGED <<cloned, io, caller, ctxvars, cli, stdout>>

(* main that prints FALSE on a mismatch and then returns Ok(()) *)
MainReportWithoutExit ==
    /\ pc = "finalized"
    /\ caller = "main"
    /\ pc' = "exited"
    /\ LET hash == LowerHex(digest)
       IN IF cli.etag # NoEtag
          THEN /\ stdout' = Append(stdout, IF hash = trim_matches(cli.etag)
                                           THEN TextTrue ELSE TextFalse)
               /\ exit_status' = ExitSuccess
          ELSE /\ stdout' = Append(stdout, LowerHex(digest))
               /\ exit_status' = ExitSuccess
    /\ UNCHANGED <<cloned, io, caller, ctxvars, cli, stderr>>

(* main after finalize: format the digest and report (s3etag.rs:38-53) *)
MainReport ==
    /\ pc = "finalized"
    /\ caller = "main"
    /\ pc' = "exited"
    /\ LET hash == LowerHex(digest)
       IN IF cli.etag # NoEtag
          THEN IF hash = trim_matches(cli.etag)
               THEN /\ stdout' = Append(stdout, TextTrue)
                    /\ exit_status' = ExitSuccess
               ELSE /\ stdout' = Append(stdout, TextFalse)
                    /\ exit_status' = ExitMismatch
          ELSE /\ stdout' = Append(stdout, LowerHex(digest))
               /\ exit_status' = ExitSuccess
    /\ UNCHANGED <<cloned, io, caller, ctxvars, cli, stderr>>

(* the data tried in consume and one-shot calls, and the files tried *)
Inputs == SeqsUpTo(MaxTotal)
Files == SeqsUpTo(MaxFileLen)

Next ==
    \/ New
    \/ \E c \in ChunkSizes : WithChunkSize(c)
    \/ \E c \in ChunkSizes, t \in 0..MaxHint : WithCapacity(c, t)
    \/ \E d \in Inputs : ConsumeCall(d)
    \/ ConsumeTake
    \/ ConsumeFlush
    \/ ConsumeReturn
    \/ Finalize
    \/ \E d \in Inputs : Compute(d)
    \/ \E d \in Inputs, c \in ChunkSizes : ComputeWithChunkSize(d, c)
    \/ \E m \in 0..MaxChunkMB : \E e \in Etags(<<>>, m * BytesPerMB) : MainMissing(m, e)
    \/ \E m \in 0..MaxChunkMB : \E e \in Etags(<<>>, m * BytesPerMB) : MainOpenFail(m, e)
    \/ \E m \in 0..MaxChunkMB, f \in Files :
          \E e \in Etags(f, m * BytesPerMB) : MainOpen(m, f, e)
    \/ \E n \in 1..MaxFileLen : CopyWrite(n)
    \/ CopyReadFail
    \/ MainReport

Spec == Init /\ [][Next]_vars

(* a library client clones the Context between two calls and turns to the *)
(* clone                                                                   *)
Clone ==
    /\ pc = "idle"
    /\ caller = "lib"
    /\ cloned.state = "none"
    /\ pc' = "cloned"
    /\ cloned' = [state |-> "live", ctx |-> clone(ctx), fed |-> fed,
                  base |-> Len(fed), digest |-> NoDigest]
    /\ UNCHANGED <<caller, ctxvars, clivars, io>>

(* a whole consume call on the clone *)
CloneConsume(data) ==
    /\ pc = "cloned"
    /\ cloned.state = "live"
    /\ Len(cloned.fed) - cloned.base + Len(data) <= MaxCloneBytes
    /\ cloned' = [cloned EXCEPT !.ctx = consume(@, data), !.fed = @ \o data]
    /\ UNCHANGED <<pc, caller, ctxvars, clivars, io>>

(* finalize on the clone *)
CloneFinalize ==
    /\ pc = "cloned"
    /\ cloned.state = "live"
    /\ LET f == finalize(cloned.ctx)
       IN cloned' = [cloned EXCEPT !.state = "finalized", !.ctx = f.ctx, !.digest = f.digest]
    /\ UNCHANGED <<pc, caller, ctxvars, clivars, io>>

(* finalize took the clone by value (mut self), so the clone is gone; the  *)
(* client turns back to the original.  Only the point where the clone was  *)
(* made is remembered.                                                     *)
CloneRelease ==
    /\ pc = "cloned"
    /\ cloned.state = "finalized"
    /\ pc' = "idle"
    /\ cloned' = [NoClone EXCEPT !.state = "released", !.base = cloned.base]
    /\ UNCHANGED <<caller, ctxvars, clivars, io>>

(* A library client that clones its accumulator. *)
CloneNext ==
    \/ \E c \in 1..MaxChunkSize : WithChunkSize(c)
    \/ \E d \in Inputs : ConsumeCall(d)
    \/ ConsumeTake
    \/ ConsumeFlush
    \/ ConsumeReturn
    \/ Finalize
    \/ Clone
    \/ \E d \in SeqsUpTo(MaxCloneBytes) \ {<<>>} : CloneConsume(d)
    \/ CloneFinalize
    \/ CloneRelease

CloneSpec == Init /\ [][CloneNext]_vars

(* The accumulator used as a std::io::Write sink, by a library client and  *)
(* by std::io::copy in main.                                               *)
SinkNext ==
    \/ \E c \in 1..MaxChunkSize : WithChunkSize(c)
    \/ \E buf \in Inputs : WriteCall(buf)
    \/ FlushCall
    \/ ConsumeTake
    \/ ConsumeFlush
    \/ ConsumeReturn
    \/ Finalize
    \/ \E f \in Files : \E e \in Etags(f, MaxChunkMB * BytesPerMB) : MainOpen(MaxChunkMB, f, e)
    \/ \E n \in 1..MaxFileLen : CopyWrite(n)
    \/ MainReport

SinkSpec == Init /\ [][SinkNext]_vars

(* The code is sequential: a consume call that has started keeps running  *)
(* its loop (lib.rs:118-132) until it returns.                             *)
ConsumeRun ==
    \/ ConsumeTake
    \/ ConsumeFlush
    \/ ConsumeReturn

FairSpec == Spec /\ WF_vars(ConsumeRun)

----------------------------------------------------------------------------
(* Reference definitions the properties are stated against.  They are      *)
(* written from the description of the digest, by position in the input,   *)
(* and use nothing of consume or finalize.                                 *)

Max(a, b) == IF a >= b THEN a ELSE b

CeilDiv(a, b) == IF a % b = 0 THEN a \div b ELSE (a \div b) + 1

(* the i-th consecutive C-byte slice of data; only the last may be shorter *)
Slice(data, C, i) == SubSeq(data, (i - 1) * C + 1, Min(i * C, Len(data)))

RECURSIVE SliceHashes(_, _, _)
(* H(c_1) || ... || H(c_n) for the first n slices *)
SliceHashes(data, C, n) ==
    IF n = 0 THEN <<>>
    ELSE SliceHashes(data, C, n - 1) \o md5(Slice(data, C, n))

(* the i-th 16-byte block of a hash list *)
Block(hashes, i) == SubSeq(hashes, (i - 1) * HashLen + 1, i * HashLen)

Constructed == pc \in {"idle", "consume", "taken", "finalized"} \/ (pc = "exited" /\ cli.opens)

----------------------------------------------------------------------------
(* C1  Chunking invariance: for every chunk size C >= 1 and every way of   *)
(* splitting the input into consume calls (empty slices included), the     *)
(* Digest finalize returns equals the Digest of one consume call with the  *)
(* whole input.                                                            *)
ChunkingInvariance ==
    (pc = "finalized" /\ ctx.chunk_size >= 1)
        => digest = compute_with_chunk_size(fed, ctx.chunk_size)

(* a finalized run of three calls, one of them empty, whose calls do not   *)
(* end on chunk boundaries                                                 *)
ChunkingInvarianceWitness ==
    /\ pc = "finalized"
    /\ caller = "lib"
    /\ ctx.chunk_size = 2
    /\ calls = <<1, 0, 2>>
    /\ digest.parts = 2

(* C2  Chunk count correctness: for input of total length L and chunk      *)
(* size C >= 1 the Digest has parts = max(1, ceil(L / C)); L = 0 gives 1.  *)
ChunkCountCorrect ==
    (pc = "finalized" /\ ctx.chunk_size >= 1)
        => digest.parts = Max(1, CeilDiv(Len(fed), ctx.chunk_size))

(* C3  Empty input is one empty chunk: finalize after zero bytes hashes    *)
(* the empty buffer as one chunk, so parts = 1 and the hash is the hash    *)
(* of that one chunk hash, not the hash of an empty hash list.             *)
EmptyInputOneChunk ==
    (pc = "finalized" /\ fed = <<>>)
        => /\ digest.parts = 1
           /\ ctx.combined_hashes = md5(<<>>)
           /\ digest.hash = md5(md5(<<>>))

(* C4  A chunk size of zero is rejected at construction: no constructed    *)
(* accumulator has chunk_size = 0, and no consume loop runs with it.       *)
ZeroChunkSizeRejected == Constructed => ctx.chunk_size # 0

(* C5  Two-level hash: for C >= 1 and non-empty input the Digest hash is   *)
(* H(H(c_1) || ... || H(c_n)) over the consecutive C-byte slices of the    *)
(* input, by the one-shot functions and by the incremental path alike,     *)
(* and the i-th block of combined_hashes is the hash of the i-th slice.    *)
TwoLevelHash ==
    /\ (Constructed /\ ctx.chunk_size >= 1)
          => \A i \in 1..ctx.chunk_count :
                Block(ctx.combined_hashes, i) = md5(Slice(fed, ctx.chunk_size, i))
    /\ (pc = "finalized" /\ ctx.chunk_size >= 1 /\ fed # <<>>)
          => LET n == CeilDiv(Len(fed), ctx.chunk_size)
             IN /\ ctx.combined_hashes = SliceHashes(fed, ctx.chunk_size, n)
                /\ digest.hash = md5(SliceHashes(fed, ctx.chunk_size, n))

(* a one-shot call over two full chunks and a shorter last one *)
TwoLevelHashWitness ==
    /\ pc = "finalized"
    /\ caller = "compute"
    /\ ctx.chunk_size = 1
    /\ Len(fed) = 3
    /\ fed[1] # fed[2]
    /\ digest.parts = 3

(* C6  Boundary exactness: after exactly k*C bytes (k >= 1, C >= 1), in    *)
(* any slicing, current_chunk is empty and chunk_count = k, and finalize   *)
(* returns parts = k with no trailing chunk hashed or appended.            *)
BoundaryExactness ==
    \A k \in 1..MaxTotal :
        (Constructed /\ ctx.chunk_size >= 1 /\ Len(fed) = k * ctx.chunk_size)
            => /\ pc = "idle" => (ctx.current_chunk = <<>> /\ ctx.chunk_count = k)
               /\ pc = "finalized"
                     => /\ digest.parts = k
                        /\ ctx.chunk_count = k
                        /\ ctx.current_chunk = <<>>
                        /\ Len(ctx.combined_hashes) = k * HashLen

(* three chunks of one byte, fed as 2 + 1 bytes, then finalized *)
BoundaryExactnessWitness ==
    /\ pc = "finalized"
    /\ caller = "lib"
    /\ ctx.chunk_size = 1
    /\ calls = <<2, 1>>
    /\ digest.parts = 3

----------------------------------------------------------------------------
(* Outcomes of a run of the command line program *)

Exited == pc = "exited" /\ caller = "main"

(* File::open or a read of std::io::copy failed *)
IoFailed == Exited /\ stderr = <<TextError>>

OutMissing ==
    /\ ~cli.exists
    /\ exit_status = ExitMissing
    /\ stdout = <<>>
    /\ fed = <<>> /\ ctx = NoContext

OutMismatch ==
    /\ cli.etag # NoEtag
    /\ stdout = <<TextFalse>>
    /\ exit_status = ExitMismatch

OutSuccess ==
    /\ exit_status = ExitSuccess
    /\ stdout = IF cli.etag # NoEtag THEN <<TextTrue>> ELSE <<LowerHex(digest)>>

OutIoFailure ==
    /\ cli.exists
    /\ stderr = <<TextError>>
    /\ exit_status = ExitFailure
    /\ stdout = <<>>
    /\ digest = NoDigest

(* in verify mode no printed line is the digest text *)
VerifyNeverPrintsDigest ==
    cli.etag # NoEtag => \A i \in 1..Len(stdout) : stdout[i] # LowerHex(digest)

Count(flags) == Cardinality({i \in 1..Len(flags) : flags[i]})

IoFailureDistinct ==
    IoFailed => /\ exit_status \notin {ExitSuccess, ExitMismatch, ExitMissing}
                /\ stdout = <<>>

(* Reading of the canonical text, written from its description: 32 hex     *)
(* characters in lower case, '-', the decimal parts.                       *)

DigitValue(ch, digits) ==
    IF \E i \in 1..Len(digits) : digits[i] = ch
    THEN (CHOOSE i \in 1..Len(digits) : digits[i] = ch) - 1
    ELSE -1

RECURSIVE DecimalValue(_)
DecimalValue(t) ==
    IF t = <<>> THEN 0
    ELSE DecimalValue(SubSeq(t, 1, Len(t) - 1)) * 10 + DigitValue(t[Len(t)], DecDigits)

IsDecimal(t) ==
    /\ t # <<>>
    /\ \A i \in 1..Len(t) : DigitValue(t[i], DecDigits) >= 0
    /\ Len(t) > 1 => t[1] # "0"

IsCanonicalText(t, d) ==
    /\ Len(t) > 2 * HashLen + 1
    /\ \A k \in 1..HashLen :
          /\ DigitValue(t[2 * k - 1], HexLower) >= 0
          /\ DigitValue(t[2 * k], HexLower) >= 0
          /\ DigitValue(t[2 * k - 1], HexLower) * 16 + DigitValue(t[2 * k], HexLower) = d.hash[k]
    /\ t[2 * HashLen + 1] = "-"
    /\ IsDecimal(SubSeq(t, 2 * HashLen + 2, Len(t)))
    /\ DecimalValue(SubSeq(t, 2 * HashLen + 2, Len(t))) = d.parts

(* e is t with quote characters around it *)
QuotedFormOf(e, d) ==
    \E i \in 0..Len(e) : \E j \in 0..(Len(e) - i) :
        /\ \A k \in 1..i : e[k] = Quote
        /\ \A k \in (Len(e) - j + 1)..Len(e) : e[k] = Quote
        /\ IsCanonicalText(SubSeq(e, i + 1, Len(e) - j), d)

(* C9  Comparison: with a reference ETag given, the program reports TRUE   *)
(* exactly when the reference with its surrounding quotes stripped is,     *)
(* character for character, the lower-case canonical text of the digest    *)
(* computed from the whole file with the chosen chunk size; any other      *)
(* reference reports FALSE.                                                *)
CliComparison ==
    (Exited /\ cli.opens /\ ~IoFailed /\ cli.etag # NoEtag)
        => /\ fed = cli.file
           /\ ctx.chunk_size = cli.chunk_size * BytesPerMB
           /\ (ctx.chunk_size >= 1 /\ cli.file # <<>>)
                 => digest.hash = md5(SliceHashes(cli.file, ctx.chunk_size,
                                                  CeilDiv(Len(cli.file), ctx.chunk_size)))
           /\ stdout = IF QuotedFormOf(cli.etag, digest)
                       THEN <<TextTrue>> ELSE <<TextFalse>>

(* a quoted reference matched the digest of a two-byte file *)
CliComparisonWitness ==
    /\ Exited
    /\ stdout = <<TextTrue>>
    /\ Len(cli.file) = 2
    /\ Head(cli.etag) = Quote
    /\ cli.etag[Len(cli.etag)] = Quote

(* C10  Buffer bound: with chunk size C >= 1, current_chunk.len() < C      *)
(* right after construction and whenever consume has returned; inside      *)
(* consume the buffer never holds more than C bytes and                    *)
(* chunk_size - current_chunk.len() never underflows.                      *)
BufferBound ==
    (Constructed /\ ctx.chunk_size >= 1)
        => /\ pc \in {"idle", "consume"} => Len(ctx.current_chunk) < ctx.chunk_size
           /\ pc = "taken" => Len(ctx.current_chunk) <= ctx.chunk_size
           /\ pc = "consume" => ctx.chunk_size - Len(ctx.current_chunk) >= 0

(* inside the second consume call the buffer holds exactly C bytes, about  *)
(* to be flushed, with input still left                                    *)
BufferBoundWitness ==
    /\ pc = "taken"
    /\ caller = "lib"
    /\ ctx.chunk_size = 2
    /\ calls = <<1, 2>>
    /\ Len(ctx.current_chunk) = ctx.chunk_size
    /\ remaining # <<>>

(* a is a prefix of b *)
IsPrefix(a, b) == Len(a) <= Len(b) /\ SubSeq(b, 1, Len(a)) = a

HashListShape ==
    Constructed
        => /\ Len(ctx.combined_hashes) = ctx.chunk_count * HashLen
           /\ pc = "finalized" => digest.parts * HashLen = Len(ctx.combined_hashes)

(* C11  Hash-list invariant: in every state of an accumulator              *)
(* combined_hashes.len() = chunk_count * 16, also when finalize computes   *)
(* the final hash; combined_hashes is append-only (every step keeps the    *)
(* bytes already appended as a prefix) and chunk_count never decreases.    *)
HashListInvariant ==
    /\ []HashListShape
    /\ [][/\ IsPrefix(ctx.combined_hashes, ctx'.combined_hashes)
          /\ ctx'.chunk_count >= ctx.chunk_count]_vars

(* two chunks appended by two consume calls *)
HashListInvariantWitness ==
    /\ pc = "idle"
    /\ caller = "lib"
    /\ ctx.chunk_size = 1
    /\ calls = <<1, 1>>
    /\ ctx.chunk_count = 2
    /\ fed[1] # fed[2]

InConsume == pc \in {"consume", "taken"} /\ ctx.chunk_size >= 1

(* in a loop iteration that is about to run, nothing can fail: the         *)
(* subtraction leaves at least one free byte                               *)
IterationSafe ==
    (pc = "consume" /\ ctx.chunk_size >= 1 /\ remaining # <<>>)
        => ctx.chunk_size - Len(ctx.current_chunk) >= 1

IsDigest(d) ==
    /\ DOMAIN d = {"hash", "parts"}
    /\ Len(d.hash) = HashLen
    /\ \A i \in 1..HashLen : d.hash[i] \in 0..255
    /\ d.parts \in Nat

(* finalize has no loop: called on an accumulator at rest it returns a     *)
(* Digest, and the Digest a finalize step has returned is that value       *)
DigestReturned ==
    /\ (pc = "idle" /\ ctx.chunk_size >= 1) => IsDigest(finalize(ctx).digest)
    /\ pc = "finalized" => IsDigest(digest) /\ digest.parts = ctx.chunk_count

(* C12  Termination and infallibility: with chunk size C >= 1 every        *)
(* iteration of the consume loop takes at least one byte, every consume    *)
(* call returns with all its input taken, finalize returns a Digest, and   *)
(* no state of consume or finalize is an error or a panic.                 *)
ConsumeTerminates ==
    /\ [][InConsume
             => /\ pc' \in {"consume", "taken", "idle"}
                /\ pc' = "taken" => Len(remaining') < Len(remaining)]_vars
    /\ [](InConsume => <>(pc = "idle" /\ remaining = <<>>))
    /\ [](IterationSafe /\ DigestReturned)

(* a consume call of three bytes that has filled and flushed a chunk and   *)
(* still has input left                                                    *)
ConsumeTerminatesWitness ==
    /\ pc = "consume"
    /\ caller = "lib"
    /\ ctx.chunk_size = 2
    /\ calls = <<3>>
    /\ ctx.chunk_count = 1
    /\ Len(remaining) = 1

(* C13  Empty input is a no-op: a consume call with an empty slice leaves  *)
(* current_chunk, combined_hashes, chunk_count, chunk_size and total_bytes *)
(* as they were, at its entry and at its return, and no step of any        *)
(* consume call changes chunk_size.                                        *)
EmptyConsumeNoOp ==
    /\ [][/\ (pc = "idle" /\ pc' = "consume" /\ remaining' = <<>>) => ctx' = ctx
          /\ (pc = "consume" /\ remaining = <<>>) => (pc' = "idle" /\ ctx' = ctx)
          /\ (pc \in {"idle", "consume", "taken"} /\ pc' \in {"consume", "taken", "idle"})
                => ctx'.chunk_size = ctx.chunk_size]_vars
    /\ [](pc = "idle" => consume(ctx, <<>>) = ctx)

(* an empty consume call has returned on an accumulator holding a partly   *)
(* filled chunk                                                            *)
EmptyConsumeNoOpWitness ==
    /\ pc = "idle"
    /\ caller = "lib"
    /\ calls = <<2, 0>>
    /\ ctx.chunk_size = 3
    /\ Len(ctx.current_chunk) = 2
    /\ ctx.total_bytes = 2

RECURSIVE SumLens(_)
SumLens(lens) == IF lens = <<>> THEN 0 ELSE Head(lens) + SumLens(Tail(lens))

(* C14  Byte counter: total_bytes() is the sum of the lengths of all the   *)
(* data passed to consume so far, and the Digest finalize returns is the   *)
(* same whatever value the byte counter holds.                             *)
ByteCounterOnly ==
    Constructed
        => /\ total_bytes(ctx) = SumLens(calls)
           /\ total_bytes(ctx) = Len(fed)
           /\ pc = "idle"
                => \A t \in 0..(MaxTotal + 1) :
                      finalize([ctx EXCEPT !.total_bytes = t]).digest = finalize(ctx).digest
           /\ pc = "finalized"
                => \A t \in 0..(MaxTotal + 1) :
                      finalize([ctx EXCEPT !.total_bytes = t,
                                           !.current_chunk = <<>>]).digest = digest

(* three bytes counted over three calls, one of them empty, ready for      *)
(* finalize                                                                *)
ByteCounterOnlyWitness ==
    /\ pc = "idle"
    /\ caller = "lib"
    /\ calls = <<1, 0, 2>>
    /\ ctx.chunk_size = 2
    /\ total_bytes(ctx) = 3

RECURSIVE ReplayCalls(_, _, _)
(* the accumulator c after consume calls that cut data into slices of the  *)
(* given lengths                                                           *)
ReplayCalls(c, data, lens) ==
    IF lens = <<>> THEN c
    ELSE ReplayCalls(consume(c, SubSeq(data, 1, Head(lens))),
                     SubSeq(data, Head(lens) + 1, Len(data)),
                     Tail(lens))

(* C15  Capacity hint is transparent: an accumulator of a library client,  *)
(* built by with_capacity(C, hint) or by with_chunk_size(C), is at every   *)
(* point of every consume call in the state the same calls produce from    *)
(* with_chunk_size(C), and finalize returns the same Digest, whether the   *)
(* hint is smaller than, equal to or larger than the number of bytes fed.  *)
CapacityHintTransparent ==
    (Constructed /\ caller = "lib" /\ ctx.chunk_size >= 1)
        => LET ref == ReplayCalls(with_chunk_size(ctx.chunk_size), fed, calls)
           IN /\ pc = "idle" => ctx = ref
              /\ pc \in {"consume", "taken"} => consume_loop(flush(ctx), remaining) = ref
              /\ pc = "finalized"
                    => /\ ctx = finalize(ref).ctx
                       /\ digest = finalize(ref).digest
                       /\ digest = compute_with_chunk_size(fed, ctx.chunk_size)

(* room reserved for one hash, three chunks hashed *)
CapacityHintTransparentWitness ==
    /\ pc = "finalized"
    /\ caller = "lib"
    /\ reserved = HashLen
    /\ ctx.chunk_size = 1
    /\ Len(fed) = 3
    /\ digest.parts = 3

(* the last n elements of s *)
LastBytes(s, n) == SubSeq(s, Len(s) - n + 1, Len(s))

(* C17  Byte conservation: with chunk size C >= 1, between consume calls   *)
(* and before finalize, total_bytes = chunk_count * C + current_chunk.len, *)
(* chunk_count = floor(total_bytes / C), current_chunk is the last         *)
(* total_bytes mod C bytes of the input and the hash list holds the hashes *)
(* of the consecutive C-byte slices before them; inside a call the same    *)
(* holds of the bytes taken so far.                                        *)
ByteConservation ==
    (Constructed /\ ctx.chunk_size >= 1)
        => LET C == ctx.chunk_size
               taken == ctx.total_bytes - Len(remaining)
           IN /\ pc = "idle"
                    => /\ remaining = <<>>
                       /\ ctx.total_bytes = ctx.chunk_count * C + Len(ctx.current_chunk)
                       /\ ctx.chunk_count = ctx.total_bytes \div C
                       /\ ctx.current_chunk = LastBytes(fed, ctx.total_bytes % C)
                       /\ ctx.combined_hashes = SliceHashes(fed, C, ctx.chunk_count)
              /\ pc \in {"consume", "taken"}
                    => /\ taken = ctx.chunk_count * C + Len(ctx.current_chunk)
                       /\ remaining = LastBytes(fed, Len(remaining))
                       /\ ctx.current_chunk
                             = SubSeq(fed, ctx.chunk_count * C + 1, taken)
                       /\ ctx.combined_hashes = SliceHashes(fed, C, ctx.chunk_count)
                       /\ pc = "consume" => ctx.chunk_count = taken \div C

(* three bytes in two calls across a chunk boundary: one chunk hashed, one *)
(* byte buffered                                                           *)
ByteConservationWitness ==
    /\ pc = "idle"
    /\ caller = "lib"
    /\ ctx.chunk_size = 2
    /\ calls = <<1, 2>>
    /\ ctx.chunk_count = 1
    /\ ctx.current_chunk = <<fed[3]>>
    /\ fed[1] # fed[3]

(* C16  Write-sink adapter: Write::write(buf) leaves the accumulator in    *)
(* the state consume(buf) produces and returns Ok(buf.len()), never a      *)
(* shorter count and never an error; Write::flush returns Ok(()) and       *)
(* changes no field; the Digest main obtains after std::io::copy has       *)
(* delivered the file in buffers of any sizes is the Digest of one consume *)
(* call with the whole file.                                               *)
WriteSinkAdapter ==
    /\ [][(pc = "idle" /\ pc' = "idle") => (ctx' = ctx /\ io'.ret = OkUnit)]_vars
    /\ []((Constructed /\ ctx.chunk_size >= 1)
            => /\ pc = "idle"
                  => ctx = ReplayCalls(with_chunk_size(ctx.chunk_size), fed, calls)
               /\ pc \in {"consume", "taken"} => io.ret = Pending
               /\ (pc = "idle" /\ io.op = "write")
                  => /\ io.ret = Ok(Len(io.buf))
                     /\ io.buf = LastBytes(fed, calls[Len(calls)])
               /\ io.op = "flush" => io.ret = OkUnit
               /\ (pc = "finalized" /\ caller = "main")
                  => digest = finalize(consume(with_chunk_size(ctx.chunk_size), cli.file)).digest)

(* main has finalized after std::io::copy wrote a two-byte file in two     *)
(* buffers of one byte                                                     *)
WriteSinkAdapterWitness ==
    /\ pc = "finalized"
    /\ caller = "main"
    /\ calls = <<1, 1>>
    /\ io.ret = Ok(1)
    /\ cli.file[1] # cli.file[2]

(* C18  Clone independence: consuming into or finalizing a clone changes   *)
(* no field of the original; the clone finalizes to the Digest of the      *)
(* bytes the original had consumed when it was cloned, followed by the     *)
(* bytes the clone was given; the original, after further consume calls,   *)
(* finalizes to the Digest of an accumulator that was never cloned.        *)
CloneIndependence ==
    /\ [][cloned' # cloned
            => (ctx' = ctx /\ remaining' = remaining /\ digest' = digest)]_vars
    /\ [](cloned.state \in {"live", "finalized"}
            => /\ SubSeq(cloned.fed, 1, cloned.base) = fed
               /\ cloned.state = "live"
                    => cloned.ctx = consume(with_chunk_size(ctx.chunk_size), cloned.fed)
               /\ cloned.state = "finalized"
                    => cloned.digest = compute_with_chunk_size(cloned.fed, ctx.chunk_size))
    /\ [](cloned.state # "none"
            => /\ pc \in {"idle", "cloned"}
                    => ctx = ReplayCalls(with_chunk_size(ctx.chunk_size), fed, calls)
               /\ pc = "finalized"
                    => digest = compute_with_chunk_size(fed, ctx.chunk_size))

(* the original was cloned after one byte and, once the clone had been     *)
(* finalized, took two more bytes across a chunk boundary and was          *)
(* finalized itself                                                        *)
CloneIndependenceWitness ==
    /\ pc = "finalized"
    /\ cloned.state = "released"
    /\ cloned.base = 1
    /\ ctx.chunk_size = 2
    /\ calls = <<1, 2>>
    /\ digest.parts = 2

=============================================================================
